---- MODULE Spec2Model ----
(***************************************************************************)
(* Model of api/graph.py: the winner-vs-loser rotation backtest that runs  *)
(* at import time (download, yearly returns, portfolio simulation loop,    *)
(* summary loop, table construction, Dash layout) and the two Dash         *)
(* callbacks that serve lookups against the computed tables.               *)
(*                                                                         *)
(* Numbers.  pandas/numpy floats are modelled as exact rationals           *)
(* [n |-> numerator, d |-> denominator] in lowest terms with d > 0; the    *)
(* float NaN is the value [n |-> 0, d |-> 0] and is absorbing for every    *)
(* arithmetic operation, as in IEEE arithmetic.  A price cell is a natural *)
(* number, 0 standing for NaN (no observation in that year).               *)
(*                                                                         *)
(* The daily price table is modelled by its year-end observations, which   *)
(* is all that resample('YE').last() keeps of it.                          *)
(***************************************************************************)
EXTENDS Integers, Sequences, FiniteSets, TLC

(* ---------------- bounds of the model ---------------- *)
\* size of the ticker universe (len(tickers); 50 in the repository)
NumTickers == 21
\* tickers 1..SmallN carry data in the small input family
SmallN == 2
\* number of calendar years of the download in the small input family
MaxYears == 4
\* number of orderings of the wide input family
MaxShuffle == 2
\* tickers 1..MaxLookup are the keys a user asks update_stock_chart for
MaxLookup == 3

(* ---------------- program constants ---------------- *)
initial_value == 10000
HeadN == 10
FirstYear == 2003

Tickers == 1 .. NumTickers
\* a dropdown value that is no key of TICKER_MAP
UnknownTicker == NumTickers + 1

(* ---------------- float arithmetic ---------------- *)
NaN == [n |-> 0, d |-> 0]
IsNaN(x) == x.d = 0
Abs(k) == IF k < 0 THEN -k ELSE k

RECURSIVE Gcd(_, _)
Gcd(a, b) == IF b = 0 THEN a ELSE Gcd(b, a % b)

Norm(n, d) ==
    LET g == Gcd(Abs(n), Abs(d)) IN
    IF d = 0 THEN NaN
    ELSE IF d < 0 THEN [n |-> (-n) \div g, d |-> (-d) \div g]
    ELSE [n |-> n \div g, d |-> d \div g]

Num(k) == [n |-> k, d |-> 1]
\* sums are formed over the least common denominator
Add(x, y) ==
    IF IsNaN(x) \/ IsNaN(y) THEN NaN
    ELSE LET g == Gcd(x.d, y.d)
         IN Norm(x.n * (y.d \div g) + y.n * (x.d \div g), (x.d \div g) * y.d)
Sub(x, y) == IF IsNaN(x) \/ IsNaN(y) THEN NaN ELSE Add(x, [n |-> -y.n, d |-> y.d])
Mul(x, y) ==
    IF IsNaN(x) \/ IsNaN(y) THEN NaN
    ELSE LET g1 == Gcd(Abs(x.n), y.d)
             g2 == Gcd(Abs(y.n), x.d)
         IN Norm((x.n \div g1) * (y.n \div g2), (x.d \div g2) * (y.d \div g1))
\* x / y; a zero divisor gives a non-finite float, modelled as NaN
Div(x, y) == IF IsNaN(x) \/ IsNaN(y) \/ y.n = 0 THEN NaN ELSE Mul(x, Norm(y.d, y.n))
\* x <= y on finite floats
Leq(x, y) == x.n * y.d <= y.n * x.d

\* Python round(x, 2): round half to even on the
\* hundredths; round(nan, 2) is nan.
Round2(x) ==
    IF IsNaN(x) THEN NaN
    ELSE LET whole == x.n \div x.d
             rem == x.n % x.d
             h == (rem * 100) \div x.d
             r == (rem * 100) % x.d
             up == IF 2 * r > x.d THEN 1
                   ELSE IF 2 * r < x.d THEN 0
                   ELSE IF (whole * 100 + h) % 2 = 0 THEN 0 ELSE 1
         IN Norm(whole * 100 + h + up, 100)

RECURSIVE SumOver(_, _)
SumOver(S, f) ==
    IF S = {} THEN Num(0)
    ELSE LET s == CHOOSE t \in S : TRUE IN Add(f[s], SumOver(S \ {s}, f))

\* Series.mean(): NaN for an empty selection, no exception
Mean(S, f) == IF S = {} THEN NaN ELSE Div(SumOver(S, f), Num(Cardinality(S)))

Range(q) == {q[k] : k \in 1 .. Len(q)}

(* ---------------- inputs: the downloaded price table ---------------- *)
\* Small family: tickers 1..SmallN carry data, the others have no history.
\* Ticker 1 is priced in any set of years (listed late, delisted, gaps,
\* never priced); the other tickers are priced from some year up to the last
\* one (listed later, possibly never).  Prices cycle through 1, 2 and 3.
PatternPrice(s, y) == ((y + s) % 3) + 1

ListedLate == {c .. MaxYears : c \in 1 .. MaxYears + 1}

SmallMasks ==
    { mask \in [1 .. SmallN -> SUBSET (1 .. MaxYears)] :
        \A s \in 2 .. SmallN : mask[s] \in ListedLate }

SmallPanels ==
    { [y \in 1 .. MaxYears |->
         [s \in Tickers |->
            IF s <= SmallN /\ y \in mask[s] THEN PatternPrice(s, y) ELSE 0]] :
      mask \in SmallMasks }

\* Wide family: four years over the whole universe.  Tickers 1..late are
\* listed only from the second year, the last `gone` tickers lose their
\* price in the fourth year.  Prices start at 30 * 30 * 30 and grow every
\* year by a factor (30 + off) / 30, so that returns are multiples of 1/30;
\* the offsets are residues modulo the prime 23, pairwise different over the
\* universe, except for one tied pair in the second year when tie = 1.
WideOff(a, s) == ((a * s) % 23) - 10
WideOff2(a, tie, s) ==
    IF tie = 1 /\ WideOff(a, s) > 1 THEN WideOff(a, s) - 1 ELSE WideOff(a, s)

WidePanels ==
    { << [s \in Tickers |-> IF s <= late THEN 0 ELSE 30 * 30 * 30],
         [s \in Tickers |-> 30 * 30 * (30 + WideOff2(a, tie, s))],
         [s \in Tickers |-> 30 * (30 + WideOff2(a, tie, s)) * (30 + WideOff(5, s))],
         [s \in Tickers |->
            IF s > NumTickers - gone THEN 0
            ELSE (30 + WideOff2(a, tie, s)) * (30 + WideOff(5, s)) * (30 + WideOff(7, s))] >> :
      late \in 0 .. NumTickers, gone \in 0 .. 1, a \in 1 .. MaxShuffle, tie \in 0 .. 1 }

PricePanels == SmallPanels \cup WidePanels

VARIABLES prices, fill_pad, pc, error, annual_returns,
          top_portfolio, bottom_portfolio, years, detailed_records,
          i, valid_stocks, top10, bottom10,
          summary_rows, preloaded_data, year_options, year_value, response

vars == << prices, fill_pad, pc, error, annual_returns,
           top_portfolio, bottom_portfolio, years, detailed_records,
           i, valid_stocks, top10, bottom10,
           summary_rows, preloaded_data, year_options, year_value, response >>

(* ---------------- step 1: download and preprocess (lines 33-35) -------- *)
\* DataFrame.ffill() applied by pct_change when its fill_method is 'pad':
\* the last observation at or before year y, NaN before the first one.
RECURSIVE Padded(_, _, _)
Padded(p, y, s) ==
    IF y = 0 THEN 0
    ELSE IF p[y][s] # 0 THEN p[y][s]
    ELSE Padded(p, y - 1, s)

\* the table pct_change divides: padded under fill_method='pad' (the default
\* of pandas 2.x), the table itself under fill_method=None (pandas 3)
Filled(p, pad, y, s) == IF pad THEN Padded(p, y, s) ELSE p[y][s]

\* one cell of yearly_prices.pct_change(): data / data.shift(1) - 1
PctChange(p, pad, y, s) ==
    IF y = 1 THEN NaN
    ELSE IF Filled(p, pad, y, s) = 0 \/ Filled(p, pad, y - 1, s) = 0 THEN NaN
    ELSE Norm(Filled(p, pad, y, s) - Filled(p, pad, y - 1, s), Filled(p, pad, y - 1, s))

\* Series.dropna(): the labels of a row whose value is not NaN
DropNa(row) == {s \in DOMAIN row : ~IsNaN(row[s])}

\* variant of AnnualReturns: dropna(how='all') left out, all-NaN rows stay
AnnualReturnsKeepAll(p, pad) ==
    [y \in 1 .. Len(p) |->
        [year |-> FirstYear + y - 1,
         ret |-> [s \in Tickers |-> PctChange(p, pad, y, s)]]]

\* yearly_prices.pct_change().dropna(how='all'): the rows, in year order,
\* that have at least one return
AnnualReturns(p, pad) ==
    LET all == [y \in 1 .. Len(p) |->
                  [year |-> FirstYear + y - 1,
                   ret |-> [s \in Tickers |-> PctChange(p, pad, y, s)]]]
        keep(r) == DropNa(r.ret) # {}
    IN SelectSeq(all, keep)

BuildReturns ==
    /\ pc = "download"
    /\ annual_returns' = AnnualReturns(prices, fill_pad)
    /\ pc' = "init"
    /\ UNCHANGED << prices, fill_pad, error, top_portfolio, bottom_portfolio, years,
                    detailed_records, i, valid_stocks, top10, bottom10, summary_rows,
                    preloaded_data, year_options, year_value, response >>

(* ---------------- step 2: portfolio simulation (lines 38-78) ----------- *)
\* lines 38-43; annual_returns.index[0] raises IndexError on an empty table
InitTracks ==
    /\ pc = "init"
    /\ IF Len(annual_returns) = 0
       THEN /\ pc' = "failed"
            /\ error' = "IndexError"
            /\ UNCHANGED << top_portfolio, bottom_portfolio, years, detailed_records, i >>
       ELSE /\ pc' = "loop"
            /\ top_portfolio' = << Num(initial_value) >>
            /\ bottom_portfolio' = << Num(initial_value) >>
            /\ years' = << annual_returns[1].year >>
            /\ detailed_records' = << >>
            /\ i' = 0
            /\ UNCHANGED error
    /\ UNCHANGED << prices, fill_pad, annual_returns, valid_stocks, top10, bottom10,
                    summary_rows, preloaded_data, year_options, year_value, response >>

\* variant of SortValues: the ascending flag is ignored, always ascending
RECURSIVE SortAscending(_, _, _)
SortAscending(S, key, desc) ==
    IF S = {} THEN {<< >>}
    ELSE LET first == {s \in S : \A t \in S : Leq(key[s], key[t])}
         IN UNION { { <<s>> \o rest : rest \in SortAscending(S \ {s}, key, desc) } :
                    s \in first }

\* s.sort_values(ascending = ~desc) restricted to the labels S: the labels in
\* sorted order.  sort_values uses kind='quicksort', which is not stable, so
\* entries of equal value may come out in any order.
RECURSIVE SortValues(_, _, _)
SortValues(S, key, desc) ==
    IF S = {} THEN {<< >>}
    ELSE LET first == {s \in S : \A t \in S :
                          IF desc THEN Leq(key[t], key[s]) ELSE Leq(key[s], key[t])}
         IN UNION { { <<s>> \o rest : rest \in SortValues(S \ {s}, key, desc) } :
                    s \in first }

\* variant of HeadOf: a selection short of n entries is returned empty
HeadOfExact(q, n) == IF Len(q) < n THEN << >> ELSE SubSeq(q, 1, n)

\* Series.head(n): the first n entries, all of them when there are fewer
HeadOf(q, n) == SubSeq(q, 1, IF Len(q) < n THEN Len(q) ELSE n)

\* variant of LoopCount: the last transition is left out
LoopCountShort(n) == n - 2

\* range(len(annual_returns) - 1): the number of iterations of line 45
LoopCount(n) == n - 1

\* variant of CurrentRow: the selection looks at the target year
CurrentRowAhead(k) == annual_returns[k + 2]
\* variant of NextRow: the realized returns are taken from the selection year
NextRowSame(k) == annual_returns[k + 1]

\* annual_returns.iloc[k] and annual_returns.iloc[k + 1] for Python index k
CurrentRow(k) == annual_returns[k + 1]
NextRow(k) == annual_returns[k + 2]

\* variant of Records: the percentage is logged without rounding
RecordsUnrounded(sel, category, next_year, current_returns) ==
    [k \in 1 .. Len(sel) |->
        [Year |-> next_year, Category |-> category, Stock |-> sel[k],
         ReturnPct |-> Mul(current_returns[sel[k]], Num(100))]]

\* the records appended for one selection (lines 65-78)
Records(sel, category, next_year, current_returns) ==
    [k \in 1 .. Len(sel) |->
        [Year |-> next_year, Category |-> category, Stock |-> sel[k],
         ReturnPct |-> Round2(Mul(current_returns[sel[k]], Num(100)))]]

\* one iteration of the loop of line 45; i is Python's loop index
Transition ==
    /\ pc = "loop"
    /\ i < LoopCount(Len(annual_returns))
    /\ LET next_year == NextRow(i).year
           current_returns == CurrentRow(i).ret
           next_returns == NextRow(i).ret
           valid == DropNa(current_returns) \cap DropNa(next_returns)
       IN \E t10 \in {HeadOf(q, HeadN) : q \in SortValues(valid, current_returns, TRUE)},
             b10 \in {HeadOf(q, HeadN) : q \in SortValues(valid, current_returns, FALSE)} :
            LET top_avg == Mean(Range(t10), next_returns)
                bottom_avg == Mean(Range(b10), next_returns)
                top_value == Mul(top_portfolio[Len(top_portfolio)], Add(Num(1), top_avg))
                bottom_value ==
                    Mul(bottom_portfolio[Len(bottom_portfolio)], Add(Num(1), bottom_avg))
            IN /\ valid_stocks' = valid
               /\ top10' = t10
               /\ bottom10' = b10
               /\ top_portfolio' = Append(top_portfolio, top_value)
               /\ bottom_portfolio' = Append(bottom_portfolio, bottom_value)
               /\ years' = Append(years, next_year)
               /\ detailed_records' =
                     detailed_records
                        \o Records(t10, "Top 10", next_year, current_returns)
                        \o Records(b10, "Bottom 10", next_year, current_returns)
    /\ i' = i + 1
    /\ UNCHANGED << prices, fill_pad, pc, error, annual_returns, summary_rows,
                    preloaded_data, year_options, year_value, response >>

\* the range of line 45 is exhausted; line 80 starts the summary loop at 1
StartSummary ==
    /\ pc = "loop"
    /\ i >= LoopCount(Len(annual_returns))
    /\ pc' = "summary"
    /\ summary_rows' = << >>
    /\ i' = 1
    /\ UNCHANGED << prices, fill_pad, error, annual_returns, top_portfolio,
                    bottom_portfolio, years, detailed_records, valid_stocks, top10,
                    bottom10, preloaded_data, year_options, year_value, response >>

(* ---------------- summary loop (lines 80-99) ---------------- *)
SummaryRow(k) ==
    LET top_start == top_portfolio[k]
        top_end == top_portfolio[k + 1]
        bottom_start == bottom_portfolio[k]
        bottom_end == bottom_portfolio[k + 1]
        top_return == Div(Sub(top_end, top_start), top_start)
        bottom_return == Div(Sub(bottom_end, bottom_start), bottom_start)
    IN [Year |-> years[k + 1],
        TopReturnPct |-> Round2(Mul(top_return, Num(100))),
        BottomReturnPct |-> Round2(Mul(bottom_return, Num(100))),
        TopEndValue |-> Round2(top_end),
        BottomEndValue |-> Round2(bottom_end),
        TopCumulativePct |->
            Round2(Mul(Sub(Div(top_end, Num(initial_value)), Num(1)), Num(100))),
        BottomCumulativePct |->
            Round2(Mul(Sub(Div(bottom_end, Num(initial_value)), Num(1)), Num(100)))]

SummaryStep ==
    /\ pc = "summary"
    /\ i < Len(years)
    /\ summary_rows' = Append(summary_rows, SummaryRow(i))
    /\ i' = i + 1
    /\ UNCHANGED << prices, fill_pad, pc, error, annual_returns, top_portfolio,
                    bottom_portfolio, years, detailed_records, valid_stocks, top10,
                    bottom10, preloaded_data, year_options, year_value, response >>

(* ---------------- tables and preloaded series (lines 101-114) ---------- *)
\* prices[ticker].dropna(): the observations of a ticker, oldest first
Observed(p, s) ==
    LET col == [y \in 1 .. Len(p) |-> p[y][s]]
        present(v) == v # 0
    IN SelectSeq(col, present)

\* series / series.iloc[0] * 100
Normalized(series) ==
    [k \in 1 .. Len(series) |-> Mul(Div(Num(series[k]), Num(series[1])), Num(100))]

Preloaded(p) ==
    [s \in {t \in Tickers : Observed(p, t) # << >>} |-> Normalized(Observed(p, s))]

BuildTables ==
    /\ pc = "summary"
    /\ i >= Len(years)
    /\ preloaded_data' = Preloaded(prices)
    /\ pc' = "layout"
    /\ UNCHANGED << prices, fill_pad, error, annual_returns, top_portfolio,
                    bottom_portfolio, years, detailed_records, i, valid_stocks, top10,
                    bottom10, summary_rows, year_options, year_value, response >>

(* ---------------- Dash layout (lines 117-175) ---------------- *)
\* detailed_df is pd.DataFrame(detailed_records); built from an empty list it
\* has no columns and detailed_df["Year"] (line 151) raises KeyError.
Min(S) == CHOOSE m \in S : \A k \in S : m <= k

Layout ==
    /\ pc = "layout"
    /\ IF detailed_records = << >>
       THEN /\ pc' = "failed"
            /\ error' = "KeyError"
            /\ UNCHANGED << year_options, year_value >>
       ELSE /\ pc' = "serving"
            /\ year_options' = {detailed_records[k].Year : k \in 1 .. Len(detailed_records)}
            /\ year_value' =
                  Min({detailed_records[k].Year : k \in 1 .. Len(detailed_records)})
            /\ UNCHANGED error
    /\ UNCHANGED << prices, fill_pad, annual_returns, top_portfolio, bottom_portfolio,
                    years, detailed_records, i, valid_stocks, top10, bottom10,
                    summary_rows, preloaded_data, response >>

(* ---------------- callbacks (lines 182-204) ---------------- *)
\* A callback returns a value to the browser and stores nothing; response
\* is the value returned by the latest callback.
DetailRows(selected_year) ==
    LET match(r) == r.Year = selected_year
        filtered == SelectSeq(detailed_records, match)
    IN [k \in 1 .. Len(filtered) |->
          [Category |-> filtered[k].Category, Stock |-> filtered[k].Stock,
           ReturnPct |-> filtered[k].ReturnPct]]

update_yearly_detail_table(selected_year) ==
    /\ pc = "serving"
    /\ response' = [output |-> "yearly-detail-table", data |-> DetailRows(selected_year)]
    /\ UNCHANGED << prices, fill_pad, pc, error, annual_returns, top_portfolio,
                    bottom_portfolio, years, detailed_records, i, valid_stocks, top10,
                    bottom10, summary_rows, preloaded_data, year_options, year_value >>

\* variant of StockChart: the chart is drawn without the availability check
StockChartUnchecked(ticker) ==
    [output |-> "stock-performance", title |-> "Normalized Price Performance",
     ticker |-> ticker,
     trace |-> IF ticker \in DOMAIN preloaded_data THEN preloaded_data[ticker] ELSE << >>]

StockChart(ticker) ==
    IF ticker \notin DOMAIN preloaded_data \/ preloaded_data[ticker] = << >>
    THEN [output |-> "stock-performance", title |-> "No data available",
          ticker |-> ticker, trace |-> << >>]
    ELSE [output |-> "stock-performance", title |-> "Normalized Price Performance",
          ticker |-> ticker, trace |-> preloaded_data[ticker]]

update_stock_chart(ticker) ==
    /\ pc = "serving"
    /\ response' = StockChart(ticker)
    /\ UNCHANGED << prices, fill_pad, pc, error, annual_returns, top_portfolio,
                    bottom_portfolio, years, detailed_records, i, valid_stocks, top10,
                    bottom10, summary_rows, preloaded_data, year_options, year_value >>

(* ---------------- specification ---------------- *)
NoResponse == [output |-> ""]

Init ==
    /\ prices \in PricePanels
    /\ fill_pad \in BOOLEAN
    /\ pc = "download"
    /\ error = ""
    /\ annual_returns = << >>
    /\ top_portfolio = << >>
    /\ bottom_portfolio = << >>
    /\ years = << >>
    /\ detailed_records = << >>
    /\ i = 0
    /\ valid_stocks = {}
    /\ top10 = << >>
    /\ bottom10 = << >>
    /\ summary_rows = << >>
    /\ preloaded_data = << >>
    /\ year_options = {}
    /\ year_value = 0
    /\ response = NoResponse

Next ==
    \/ BuildReturns
    \/ InitTracks
    \/ Transition
    \/ StartSummary
    \/ SummaryStep
    \/ BuildTables
    \/ Layout
    \/ \E selected_year \in year_options : update_yearly_detail_table(selected_year)
    \/ \E ticker \in (1 .. MaxLookup) \cup {UnknownTicker} : update_stock_chart(ticker)

Spec == Init /\ [][Next]_vars


(* ======================= properties ======================= *)
\* a transition (Python index i - 1) has just been executed
AfterTransition == pc = "loop" /\ i >= 1
\* both loops have run to their end
LoopsDone == pc \in {"layout", "serving"} \/ (pc = "failed" /\ error = "KeyError")
\* q is a prefix of r
IsPrefix(q, r) == Len(q) <= Len(r) /\ \A k \in 1 .. Len(q) : r[k] = q[k]
\* the valid symbols have pairwise different returns in row
Distinct(S, row) == \A s, t \in S : s # t => row[s] # row[t]

\* C1: with n >= 1 return rows, once both loops are finished the two tracks
\* and the year sequence have n entries and the summary n - 1 rows; at every
\* step of the loops the three sequences have the same length.
C1_Lengths ==
    /\ (pc \in {"loop", "summary"} \/ LoopsDone) =>
          /\ Len(top_portfolio) = Len(bottom_portfolio)
          /\ Len(bottom_portfolio) = Len(years)
    /\ pc = "loop" => Len(years) = i + 1
    /\ LoopsDone =>
          /\ Len(annual_returns) >= 1
          /\ Len(years) = Len(annual_returns)
          /\ Len(summary_rows) = Len(annual_returns) - 1

C1_Witness ==
    pc = "serving" /\ Len(annual_returns) = 3 /\ Len(top_portfolio) = 3
       /\ Len(summary_rows) = 2

\* C2: the entry a transition appends to a track is the previous entry times
\* (1 + mean of the target-year returns of the selection), the year appended
\* is the target year, and no step changes an entry already appended.
C2_Compounding ==
    /\ [](AfterTransition /\ valid_stocks # {} =>
            /\ top_portfolio[i + 1] =
                  Mul(top_portfolio[i],
                      Add(Num(1), Mean(Range(top10), annual_returns[i + 1].ret)))
            /\ bottom_portfolio[i + 1] =
                  Mul(bottom_portfolio[i],
                      Add(Num(1), Mean(Range(bottom10), annual_returns[i + 1].ret)))
            /\ years[i + 1] = annual_returns[i + 1].year)
    /\ [][ /\ IsPrefix(top_portfolio, top_portfolio')
           /\ IsPrefix(bottom_portfolio, bottom_portfolio')
           /\ IsPrefix(years, years') ]_vars

C2_Witness ==
    AfterTransition /\ i = 2 /\ valid_stocks # {}
       /\ ~IsNaN(top_portfolio[3]) /\ top_portfolio[3] # top_portfolio[2]
       /\ top_portfolio[2] # bottom_portfolio[2] /\ top_portfolio[3] # bottom_portfolio[3]

\* C3 as stated: for every transition the two selections are disjoint, of at
\* most 10 symbols each, and subsets of valid_stocks, the symbols with a
\* return in both years, whatever the size of valid_stocks.
C3_Original ==
    AfterTransition =>
       /\ Range(top10) \cap Range(bottom10) = {}
       /\ Len(top10) <= HeadN /\ Len(bottom10) <= HeadN
       /\ Range(top10) \subseteq valid_stocks /\ Range(bottom10) \subseteq valid_stocks
       /\ valid_stocks = DropNa(annual_returns[i].ret) \cap DropNa(annual_returns[i + 1].ret)

\* C3 amended: the selections are duplicate-free, of min(10, k) symbols each,
\* subsets of valid_stocks; they are disjoint when valid_stocks has at least
\* 20 symbols of pairwise different selection-year return, and they overlap
\* when it has between 1 and 19 symbols.
C3_Selections ==
    AfterTransition =>
       LET k == Cardinality(valid_stocks)
           m == IF k < HeadN THEN k ELSE HeadN
       IN /\ Len(top10) = m /\ Len(bottom10) = m
          /\ Cardinality(Range(top10)) = m /\ Cardinality(Range(bottom10)) = m
          /\ Range(top10) \subseteq valid_stocks /\ Range(bottom10) \subseteq valid_stocks
          /\ valid_stocks =
                DropNa(annual_returns[i].ret) \cap DropNa(annual_returns[i + 1].ret)
          /\ (k >= 2 * HeadN /\ Distinct(valid_stocks, annual_returns[i].ret)) =>
                Range(top10) \cap Range(bottom10) = {}
          /\ (k >= 1 /\ k < 2 * HeadN) =>
                Cardinality(Range(top10) \cap Range(bottom10)) >= 2 * m - k

C3_Witness ==
    AfterTransition /\ Cardinality(valid_stocks) >= 2 * HeadN
       /\ Distinct(valid_stocks, annual_returns[i].ret)
       /\ Len(top10) = HeadN /\ Range(top10) \cap Range(bottom10) = {}

\* C4 as stated: a run that has an empty valid_stocks in some transition, or
\* no transition at all, does not complete normally: a completed run has no
\* NaN track entry and at least one summary row.
C4_Original ==
    pc = "serving" =>
       /\ \A k \in 1 .. Len(top_portfolio) :
             ~IsNaN(top_portfolio[k]) /\ ~IsNaN(bottom_portfolio[k])
       /\ summary_rows # << >>

\* C5 as stated: a symbol has a return for year y only when its year-end
\* price is present for year y and for year y - 1, and is in valid_stocks
\* only for transitions whose two years both satisfy this.
C5_Original ==
    /\ \A k \in 1 .. Len(annual_returns) : \A s \in Tickers :
          LET y == annual_returns[k].year - FirstYear + 1 IN
          ~IsNaN(annual_returns[k].ret[s]) =>
             y >= 2 /\ prices[y][s] # 0 /\ prices[y - 1][s] # 0
    /\ AfterTransition =>
          \A s \in valid_stocks : \A k \in {i, i + 1} :
             LET y == annual_returns[k].year - FirstYear + 1 IN
             prices[y][s] # 0 /\ prices[y - 1][s] # 0

\* C6: a transition with 1 <= k < 10 valid symbols does not fail; both
\* selections hold all k symbols, both averages are taken over them, and
\* one entry is appended to each track.
C6_Shortfall ==
    (AfterTransition /\ valid_stocks # {} /\ Cardinality(valid_stocks) < HeadN) =>
       /\ error = ""
       /\ Range(top10) = valid_stocks /\ Range(bottom10) = valid_stocks
       /\ Len(top10) = Cardinality(valid_stocks)
       /\ Len(bottom10) = Cardinality(valid_stocks)
       /\ Len(top_portfolio) = i + 1 /\ Len(bottom_portfolio) = i + 1
       /\ top_portfolio[i + 1] =
             Mul(top_portfolio[i],
                 Add(Num(1), Div(SumOver(valid_stocks, annual_returns[i + 1].ret),
                                 Num(Cardinality(valid_stocks)))))
       /\ bottom_portfolio[i + 1] =
             Mul(bottom_portfolio[i],
                 Add(Num(1), Div(SumOver(valid_stocks, annual_returns[i + 1].ret),
                                 Num(Cardinality(valid_stocks)))))

C6_Witness ==
    AfterTransition /\ Cardinality(valid_stocks) = HeadN - 1
       /\ Len(top10) = HeadN - 1 /\ Len(top_portfolio) = i + 1

\* C7: update_stock_chart for a symbol without a price series, outside the
\* universe or inside it, answers 'No data available', does not fail, and
\* leaves the preloaded data and the backtest tables as they are.
NoSeries(t) == t \notin Tickers \/ \A y \in 1 .. Len(prices) : prices[y][t] = 0

C7_NoData ==
    /\ []((pc = "serving" /\ response.output = "stock-performance"
              /\ NoSeries(response.ticker)) =>
            response.title = "No data available" /\ response.trace = << >> /\ error = "")
    /\ [][ pc = "serving" =>
             /\ pc' = "serving" /\ error' = error
             /\ UNCHANGED << preloaded_data, top_portfolio, bottom_portfolio, years,
                             detailed_records, summary_rows, annual_returns, prices >> ]_vars

C7_Witness ==
    pc = "serving" /\ response.output = "stock-performance"
       /\ response.title = "No data available"
       /\ response.ticker \in Tickers /\ NoSeries(response.ticker)
       /\ DOMAIN preloaded_data # {}

\* C8: entry 0 of both tracks is initial_value and entry 0 of years is the
\* year of the first return row, from the initialisation on; no step
\* overwrites entry 0.
ReturnYears ==
    {y \in 1 .. Len(prices) : \E s \in Tickers : ~IsNaN(PctChange(prices, fill_pad, y, s))}

C8_FirstEntry ==
    /\ []((pc \in {"loop", "summary"} \/ LoopsDone) =>
            /\ Len(top_portfolio) >= 1 /\ Len(bottom_portfolio) >= 1 /\ Len(years) >= 1
            /\ top_portfolio[1] = Num(initial_value)
            /\ bottom_portfolio[1] = Num(initial_value)
            /\ ReturnYears # {}
            /\ \A y \in ReturnYears : years[1] <= FirstYear + y - 1
            /\ years[1] - FirstYear + 1 \in ReturnYears)
    /\ [][ top_portfolio # << >> =>
             /\ top_portfolio' # << >> /\ top_portfolio'[1] = top_portfolio[1]
             /\ bottom_portfolio'[1] = bottom_portfolio[1]
             /\ years'[1] = years[1] ]_vars

C8_Witness ==
    pc = "serving" /\ Len(top_portfolio) = 2 /\ top_portfolio[1] = Num(initial_value)
       /\ top_portfolio[2] # Num(initial_value) /\ years[1] > FirstYear + 1

\* the row of annual_returns a record's year labels, and the one before it
RowOfYear(year) == CHOOSE r \in 1 .. Len(annual_returns) : annual_returns[r].year = year

\* C9 as stated: every record carries the selection-year return times 100
\* and there is one record per (year, symbol) pair.
C9_Original ==
    /\ \A j, k \in 1 .. Len(detailed_records) :
          (detailed_records[j].Year = detailed_records[k].Year
             /\ detailed_records[j].Stock = detailed_records[k].Stock) => j = k
    /\ \A k \in 1 .. Len(detailed_records) :
          LET r == detailed_records[k] IN
          r.ReturnPct = Mul(annual_returns[RowOfYear(r.Year) - 1].ret[r.Stock], Num(100))

\* C9 amended: the log is append-only; a transition appends one record per
\* symbol of top10 (Top 10) and then one per symbol of bottom10 (Bottom 10),
\* with Year the target year and Return % the selection-year return times
\* 100 rounded to 2 decimals; there is one record per (year, category,
\* symbol) triple.
C9_Log ==
    /\ [](AfterTransition =>
            LET m == Len(top10)
                b == Len(bottom10)
                base == Len(detailed_records) - m - b
            IN /\ base >= 0
               /\ \A k \in 1 .. m :
                     detailed_records[base + k] =
                        [Year |-> annual_returns[i + 1].year, Category |-> "Top 10",
                         Stock |-> top10[k],
                         ReturnPct |->
                            Round2(Mul(annual_returns[i].ret[top10[k]], Num(100)))]
               /\ \A k \in 1 .. b :
                     detailed_records[base + m + k] =
                        [Year |-> annual_returns[i + 1].year, Category |-> "Bottom 10",
                         Stock |-> bottom10[k],
                         ReturnPct |->
                            Round2(Mul(annual_returns[i].ret[bottom10[k]], Num(100)))])
    /\ [](\A j, k \in 1 .. Len(detailed_records) :
            (detailed_records[j].Year = detailed_records[k].Year
               /\ detailed_records[j].Category = detailed_records[k].Category
               /\ detailed_records[j].Stock = detailed_records[k].Stock) => j = k)
    /\ [][ /\ IsPrefix(detailed_records, detailed_records')
           /\ IF pc = "loop" /\ pc' = "loop"
              THEN Len(detailed_records') =
                      Len(detailed_records) + Len(top10') + Len(bottom10')
              ELSE detailed_records' = detailed_records ]_vars

C9_Witness ==
    /\ AfterTransition /\ i = 2 /\ Len(top10) >= 2
    /\ Range(top10) \cap Range(bottom10) # {}
    /\ \E k \in 1 .. Len(detailed_records) :
          LET r == detailed_records[k] IN
          r.ReturnPct # Mul(annual_returns[RowOfYear(r.Year) - 1].ret[r.Stock], Num(100))

\* C10: with at least 10 valid symbols top10 holds exactly 10 symbols, each
\* with a selection-year return >= that of every valid symbol left out, in
\* non-increasing order; bottom10 the same with <= and non-decreasing order.
\* The ranking is by the returns of year i.
C10_Ranking ==
    (AfterTransition /\ Cardinality(valid_stocks) >= HeadN) =>
       LET sel == annual_returns[i].ret IN
       /\ Len(top10) = HeadN /\ Cardinality(Range(top10)) = HeadN
       /\ Len(bottom10) = HeadN /\ Cardinality(Range(bottom10)) = HeadN
       /\ \A s \in Range(top10) : \A t \in valid_stocks \ Range(top10) : Leq(sel[t], sel[s])
       /\ \A k \in 1 .. HeadN - 1 : Leq(sel[top10[k + 1]], sel[top10[k]])
       /\ \A s \in Range(bottom10) : \A t \in valid_stocks \ Range(bottom10) :
             Leq(sel[s], sel[t])
       /\ \A k \in 1 .. HeadN - 1 : Leq(sel[bottom10[k]], sel[bottom10[k + 1]])

C10_Witness ==
    /\ AfterTransition /\ Cardinality(valid_stocks) > HeadN
    /\ Len(top10) = HeadN
    /\ \E s \in Range(top10) : \E t \in valid_stocks \ Range(top10) :
          annual_returns[i].ret[s] = annual_returns[i].ret[t]

====
